---- MODULE Spec2Model ----
(***************************************************************************)
(* Codeforces multi-account statistics: the command line batch            *)
(* (cf_multi_stats.py: fetch_all_submissions, summarize_handles) and the  *)
(* web request handler (app.py: index) with its thread pool fan-out.      *)
(***************************************************************************)
EXTENDS Integers, Sequences, FiniteSets, TLC

\* ---------------------------------------------------------------- bounds
MaxHist == 2        \* longest remote submission history of one account
MaxHandles == 2     \* longest handle list given to summarize_handles
MaxPageSize == 2    \* page sizes explored for PAGE_SIZE: 1..MaxPageSize
MaxWebHist == 1     \* longest remote history of one account in a web request

\* ------------------------------------------------------ program constants
START_TS == 1761955200   \* int(datetime(2025, 11, 1, tzinfo=utc).timestamp())
max_workers == 10        \* ThreadPoolExecutor(max_workers=10)

\* ------------------------------------------------------------ Python values
None == << >>
Some(x) == << x >>

Min(a, b) == IF a < b THEN a ELSE b

\* A dict is a function on its key set; {} is the empty function.
EmptyDict == << >>

\* d[k] = v
DictSet(d, k, v) == [x \in DOMAIN d \cup {k} |-> IF x = k THEN v ELSE d[x]]

\* ------------------------------------------------------------- the remote
Handles == {"alice", "bob"}

\* Submissions the remote judge may hold.  Creation times are distinct, so a
\* history (newest first, the API's order) is fixed by the set of its members.
Universe ==
  { [creationTimeSeconds |-> START_TS + 86400, verdict |-> "OK",
     problem |-> [contestId |-> 1, index |-> "A", rating |-> Some(1600),
                  tags |-> <<"dp", "graphs">>]],
    [creationTimeSeconds |-> START_TS + 86399, verdict |-> "OK",
     problem |-> [contestId |-> 2, index |-> "B", rating |-> None,
                  tags |-> <<"dp", "dp">>]],
    [creationTimeSeconds |-> START_TS + 100, verdict |-> "OK",
     problem |-> [contestId |-> 2, index |-> "B", rating |-> Some(1600),
                  tags |-> <<"dp">>]],
    [creationTimeSeconds |-> START_TS + 50, verdict |-> "WRONG_ANSWER",
     problem |-> [contestId |-> 3, index |-> "C", rating |-> Some(800),
                  tags |-> <<"math">>]],
    [creationTimeSeconds |-> START_TS, verdict |-> "OK",
     problem |-> [contestId |-> 3, index |-> "C", rating |-> Some(800),
                  tags |-> <<"math">>]],
    [creationTimeSeconds |-> START_TS - 1, verdict |-> "OK",
     problem |-> [contestId |-> 1, index |-> "A", rating |-> Some(1600),
                  tags |-> <<"dp", "graphs">>]] }

\* The members of S as the API lists them: newest first.
NewestFirst(S) ==
  CHOOSE q \in [1..Cardinality(S) -> S] :
    \A i, j \in 1..Cardinality(S) :
      i < j => q[i].creationTimeSeconds > q[j].creationTimeSeconds

HistoriesUpTo(n) == {NewestFirst(S) : S \in {T \in SUBSET Universe : Cardinality(T) <= n}}

\* user.status?handle=h&from=f&count=c on a history: c records from the f-th.
Page(history, from, count) ==
  SubSeq(history, from, Min(from + count - 1, Len(history)))

\* What a request can raise: requests.get (transport), raise_for_status (HTTP
\* status), and the RuntimeError of an API status other than OK.
Exceptions == {"RequestException", "HTTPError", "RuntimeError"}

\* ------------------------------------------------- summarize_handles: the fold
\* The (contestId, index) key of a submission's problem.
KeyOf(sub) == <<sub.problem.contestId, sub.problem.index>>

\* A submission the loop keeps: accepted, and not before START_TS.
CountedAnyTime(sub) == sub.verdict = "OK"
Counted(sub) == sub.verdict = "OK" /\ ~(sub.creationTimeSeconds < START_TS)

\* dict.setdefault(k, v)
SetDefault(d, k, v) == IF k \in DOMAIN d THEN d ELSE DictSet(d, k, v)

\* The loop over subs: acc is [solved_local, global_solved].
RECURSIVE ScanSubs(_, _)
ScanSubs(subs, acc) ==
  IF subs = << >> THEN acc
  ELSE LET sub == Head(subs)
           key == KeyOf(sub)
           rating == sub.problem.rating
       IN ScanSubs(Tail(subs),
            IF Counted(sub) /\ key \notin DOMAIN acc.solved_local
            THEN [solved_local |-> DictSet(acc.solved_local, key, rating),
                  global_solved |-> SetDefault(acc.global_solved, key, rating)]
            ELSE acc)

RECURSIVE SumRatings(_, _)
SumRatings(d, keys) ==
  IF keys = {} THEN 0
  ELSE LET k == CHOOSE x \in keys : TRUE
       IN (IF d[k] = None THEN 0 ELSE d[k][1]) + SumRatings(d, keys \ {k})

\* sum(rated) / len(rated) as the fraction <<sum, len>>; 0.0 is <<0, 1>>.
Average(d) ==
  LET rated == {k \in DOMAIN d : d[k] # None}
  IN IF rated = {} THEN <<0, 1>> ELSE <<SumRatings(d, rated), Cardinality(rated)>>

\* results[h] of an account whose fetch succeeded.
Summary(solved_local) ==
  [problems |-> Cardinality(DOMAIN solved_local),
   rated_problems |-> Cardinality({k \in DOMAIN solved_local : solved_local[k] # None}),
   avg_rating |-> Average(solved_local)]

\* except Exception: every exception of the fetch is caught.
CaughtRuntimeErrorOnly(exc) == exc = "RuntimeError"
Caught(exc) == exc \in Exceptions

\* len(batch) < page_size
ShortPageInclusive(batch, size) == Len(batch) <= size
ShortPage(batch, size) == Len(batch) < size

\* ----------------------------------------------------------- index: the form
DateStrings == {"2025-11-01", "2025-11-02", "not-a-date"}

\* datetime.fromisoformat(s).replace(tzinfo=utc).timestamp(); None: it raises.
FromIsoFormat(s) ==
  CASE s = "2025-11-01" -> Some(START_TS)
    [] s = "2025-11-02" -> Some(START_TS + 86400)
    [] OTHER -> None

\* The people_json values a request may carry; ok = FALSE: json.loads raises.
PeopleData ==
  { << >>,
    << [name |-> "Ann", handles |-> <<"alice">>] >>,
    << [name |-> "Ann", handles |-> <<"alice", "alice">>] >>,
    << [name |-> "Ann", handles |-> <<"alice", "bob">>] >>,
    << [name |-> "Ann", handles |-> <<"alice", "bob">>],
       [name |-> "Ben", handles |-> <<"bob">>] >> }

PeopleJson == {[ok |-> TRUE, value |-> pd] : pd \in PeopleData}
                \cup {[ok |-> FALSE, value |-> << >>]}

\* A request with more distinct accounts than the pool has workers.
PoolHandles == <<"h01", "h02", "h03", "h04", "h05", "h06", "h07", "h08", "h09",
                 "h10", "h11">>

\* json.loads(raw_json), [] when it raises.
JsonLoads(raw) == IF raw.ok THEN raw.value ELSE << >>

Range(q) == {q[i] : i \in 1..Len(q)}

\* set(h for p in people_data for h in p['handles'])
HandleSet(people_data) == UNION {Range(p.handles) : p \in Range(people_data)}

\* list(s): the members of s in the set's iteration order.
ListOfSet(s, order) == SelectSeq(order, LAMBDA h : h \in s)

IterationOrders(S) ==
  {q \in [1..Cardinality(S) -> S] : \A i, j \in 1..Cardinality(S) : i # j => q[i] # q[j]}

\* ------------------------------------------------------ index: aggregation
\* dict.update
DictUpdate(d, e) ==
  [k \in DOMAIN d \cup DOMAIN e |-> IF k \in DOMAIN e THEN e[k] ELSE d[k]]

\* dict.get(k, 0) + 1
Increment(d, k) == DictSet(d, k, (IF k \in DOMAIN d THEN d[k] ELSE 0) + 1)

\* if r: -- neither None nor 0
Truthy(r) == r # None /\ r[1] # 0

\* for h in person['handles']: acc is [person_problems, person_handles_stats].
RECURSIVE MergeHandles(_, _, _)
MergeHandles(hs, map, acc) ==
  IF hs = << >> THEN acc
  ELSE LET h == Head(hs)
           ok == h \in DOMAIN map /\ map[h].stats # None
       IN MergeHandles(Tail(hs), map,
            IF ok
            THEN [person_problems |-> DictUpdate(acc.person_problems, map[h].problems),
                  person_handles_stats |->
                    Append(acc.person_handles_stats, [handle |-> h, stats |-> map[h].stats])]
            ELSE [person_problems |-> acc.person_problems,
                  person_handles_stats |->
                    Append(acc.person_handles_stats, [handle |-> h, stats |-> None])])

\* for t in p_info.get("tags", []): t_hist[t] = t_hist.get(t, 0) + 1
RECURSIVE CountTags(_, _)
CountTags(tags, t_hist) ==
  IF tags = << >> THEN t_hist
  ELSE CountTags(Tail(tags), Increment(t_hist, Head(tags)))

\* for p_info in person_problems.values(): acc is [r_hist, t_hist].
RECURSIVE BuildHists(_, _, _)
BuildHists(d, keys, acc) ==
  IF keys = {} THEN acc
  ELSE LET k == CHOOSE x \in keys : TRUE
           r == d[k].rating
       IN BuildHists(d, keys \ {k},
            [r_hist |-> IF Truthy(r) THEN Increment(acc.r_hist, r[1]) ELSE acc.r_hist,
             t_hist |-> CountTags(d[k].tags, acc.t_hist)])

RECURSIVE SumTruthy(_, _)
SumTruthy(d, keys) ==
  IF keys = {} THEN 0
  ELSE LET k == CHOOSE x \in keys : TRUE
       IN d[k].rating[1] + SumTruthy(d, keys \ {k})

\* f"{k[0]}_{k[1]}"
KeyString(k) == ToString(k[1]) \o "_" \o k[2]

\* One turn of "for person in people_data": the entry appended to people_results.
PersonResult(person, map) ==
  LET m == MergeHandles(person.handles, map,
             [person_problems |-> EmptyDict, person_handles_stats |-> << >>])
      pp == m.person_problems
      h == BuildHists(pp, DOMAIN pp, [r_hist |-> EmptyDict, t_hist |-> EmptyDict])
      rated == {k \in DOMAIN pp : Truthy(pp[k].rating)}
  IN [name |-> person.name,
      handles |-> m.person_handles_stats,
      total_unique |-> Cardinality(DOMAIN pp),
      avg_rating |-> IF rated = {} THEN <<0, 1>>
                     ELSE <<SumTruthy(pp, rated), Cardinality(rated)>>,
      rating_hist |-> h.r_hist,
      tag_hist |-> h.t_hist,
      raw_problems |-> [x \in {KeyString(k) : k \in DOMAIN pp} |->
                          pp[CHOOSE k \in DOMAIN pp : KeyString(k) = x]]]

\* handle_data_map[h] = {"stats": stats, "problems": problems}
StoreUnlessFailed(map, res) ==
  IF res[2] = None THEN map
  ELSE DictSet(map, res[1], [stats |-> res[2], problems |-> res[3]])
StoreResult(map, res) == DictSet(map, res[1], [stats |-> res[2], problems |-> res[3]])

\* A pool of max_workers threads: a queued task starts while a worker is free.
AlwaysFree(running) == TRUE
WorkerFree(running) == Cardinality(running) < max_workers

\* ------------------------------------------------------------------ state
VARIABLES
  remote,         \* the judge: handle -> submission history, newest first
  fails,          \* the accounts whose fetch fails: every fetch of such an
                  \* account raises at one of its requests, on any page
  page_size,      \* fetch_all_submissions' page_size
  handles,        \* summarize_handles' argument
  pc,             \* where the program is
  hpos,           \* position of the for loop in handles
  start_index,    \* fetch_all_submissions' start_index
  submissions,    \* fetch_all_submissions' submissions
  requested,      \* the "from" offsets the current fetch has requested
  dispatched,     \* the handles a fetch or a task was started for, in order
  results,        \* summarize_handles' results
  global_solved,  \* summarize_handles' global_solved
  form,           \* request.form: start_date, end_date, people_json
  set_order,      \* the iteration order of a set of handles in this process
  people_data,    \* index's people_data
  window,         \* index's <<start_ts, end_ts>>
  error,          \* index's error
  all_unique_handles,  \* index's all_unique_handles
  futures,        \* the pool's tasks: handle -> [state, result]
  handle_data_map,     \* index's handle_data_map
  people_results  \* index's people_results

cli_vars == <<handles, hpos, start_index, submissions, requested, results, global_solved>>

web_vars == <<form, set_order, people_data, window, error, all_unique_handles,
              futures, handle_data_map, people_results>>

vars == <<remote, fails, page_size, pc, dispatched, cli_vars, web_vars>>

SeqsUpTo(S, n) == UNION {[1..m -> S] : m \in 0..n}

\* _process_handle(h, start_ts, end_ts) -> (h, stats, problems), or
\* (h, None, message) when the fetch fails.  The solved map is first seen wins
\* over the accepted submissions of the window [start_ts, end_ts).
RECURSIVE WindowSolved(_, _, _)
WindowSolved(subs, w, acc) ==
  IF subs = << >> THEN acc
  ELSE LET sub == Head(subs)
           keep == /\ sub.verdict = "OK"
                   /\ sub.creationTimeSeconds >= w[1]
                   /\ sub.creationTimeSeconds < w[2]
                   /\ KeyOf(sub) \notin DOMAIN acc
       IN WindowSolved(Tail(subs), w,
            IF keep
            THEN DictSet(acc, KeyOf(sub),
                         [rating |-> sub.problem.rating, tags |-> sub.problem.tags])
            ELSE acc)

ProcessHandle(h, w) ==
  IF h \in fails THEN <<h, None, "fetch failed">>
  ELSE LET solved == WindowSolved(remote[h], w, EmptyDict)
       IN <<h,
            Some(Summary([k \in DOMAIN solved |-> solved[k].rating])),
            solved>>

IdleWeb ==
  /\ form = [start_date |-> "2025-11-01", end_date |-> "2025-11-01",
             people_json |-> [ok |-> TRUE, value |-> << >>]]
  /\ set_order = << >>
  /\ people_data = << >>
  /\ window = <<0, 0>>
  /\ error = None
  /\ all_unique_handles = << >>
  /\ futures = EmptyDict
  /\ handle_data_map = EmptyDict
  /\ people_results = << >>

IdleCli ==
  /\ handles = << >>
  /\ hpos = 1
  /\ start_index = 1
  /\ submissions = << >>
  /\ requested = << >>
  /\ results = EmptyDict
  /\ global_solved = EmptyDict

\* main() -> summarize_handles(handles), against any remote.
InitCli ==
  /\ handles \in SeqsUpTo(Handles, MaxHandles)
  /\ remote \in [Range(handles) -> HistoriesUpTo(MaxHist)]
  /\ fails \in SUBSET Range(handles)
  /\ page_size \in 1..MaxPageSize
  /\ pc = "loop"
  /\ hpos = 1
  /\ start_index = 1
  /\ submissions = << >>
  /\ requested = << >>
  /\ dispatched = << >>
  /\ results = EmptyDict
  /\ global_solved = EmptyDict
  /\ IdleWeb

\* A POST to "/" with any form, against any remote (a GET renders the empty
\* page and starts nothing).
InitWeb ==
  /\ form \in [start_date : DateStrings, end_date : DateStrings, people_json : PeopleJson]
  /\ set_order \in IterationOrders(HandleSet(form.people_json.value))
  /\ remote \in [Range(set_order) -> HistoriesUpTo(MaxWebHist)]
  /\ fails \in SUBSET Range(set_order)
  /\ page_size = 1
  /\ pc = "post"
  /\ dispatched = << >>
  /\ people_data = << >>
  /\ window = <<0, 0>>
  /\ error = None
  /\ all_unique_handles = << >>
  /\ futures = EmptyDict
  /\ handle_data_map = EmptyDict
  /\ people_results = << >>
  /\ IdleCli

\* A POST naming eleven distinct accounts, none of which has submissions.
InitPool ==
  /\ form \in [start_date : {"2025-11-01", "not-a-date"}, end_date : {"2025-11-01"},
               people_json : {[ok |-> TRUE,
                               value |-> << [name |-> "Ann", handles |-> PoolHandles] >>]}]
  /\ set_order = PoolHandles
  /\ remote = [h \in Range(PoolHandles) |-> << >>]
  /\ fails = {}
  /\ page_size = 1
  /\ pc = "post"
  /\ dispatched = << >>
  /\ people_data = << >>
  /\ window = <<0, 0>>
  /\ error = None
  /\ all_unique_handles = << >>
  /\ futures = EmptyDict
  /\ handle_data_map = EmptyDict
  /\ people_results = << >>
  /\ IdleCli

\* ------------------------------------------------------- summarize_handles
\* for h in handles: subs = fetch_all_submissions(h) -- the call.
CallFetch ==
  /\ pc = "loop"
  /\ hpos <= Len(handles)
  /\ pc' = "fetch"
  /\ start_index' = 1
  /\ submissions' = << >>
  /\ requested' = << >>
  /\ dispatched' = Append(dispatched, handles[hpos])
  /\ UNCHANGED <<remote, fails, page_size, handles, hpos, results, global_solved, web_vars>>

\* One turn of the while loop: a request that raises, or a page.
RequestPage ==
  /\ pc = "fetch"
  /\ LET h == handles[hpos]
         batch == Page(remote[h], start_index, page_size)
         last == batch = << >> \/ ShortPage(batch, page_size)
     IN /\ requested' = Append(requested, start_index)
        /\ \/ /\ h \in fails
              /\ \E exc \in Exceptions :
                   IF Caught(exc)
                   THEN /\ results' = DictSet(results, h, None)
                        /\ hpos' = hpos + 1
                        /\ pc' = "loop"
                   ELSE /\ pc' = "propagated"
                        /\ UNCHANGED <<results, hpos>>
              /\ UNCHANGED <<start_index, submissions>>
           \/ /\ h \notin fails \/ ~last
              /\ submissions' = submissions \o batch
              /\ start_index' = IF last THEN start_index ELSE start_index + Len(batch)
              /\ pc' = IF last THEN "summarize" ELSE "fetch"
              /\ UNCHANGED <<results, hpos>>
  /\ UNCHANGED <<remote, fails, page_size, handles, dispatched, global_solved, web_vars>>

\* The rest of the loop body, on the list the fetch returned.
SummarizeAccount ==
  /\ pc = "summarize"
  /\ LET h == handles[hpos]
         acc == ScanSubs(submissions,
                         [solved_local |-> EmptyDict, global_solved |-> global_solved])
     IN /\ results' = DictSet(results, h, Some(Summary(acc.solved_local)))
        /\ global_solved' = acc.global_solved
  /\ hpos' = hpos + 1
  /\ pc' = "loop"
  /\ UNCHANGED <<remote, fails, page_size, handles, start_index, submissions,
                 requested, dispatched, web_vars>>

\* return results, global_solved
ReturnResults ==
  /\ pc = "loop"
  /\ hpos > Len(handles)
  /\ pc' = "done"
  /\ UNCHANGED <<remote, fails, page_size, dispatched, cli_vars, web_vars>>

\* ------------------------------------------------------------------- index
\* The form is read: a date that does not parse ends the request.
ParseForm ==
  /\ pc = "post"
  /\ people_data' = JsonLoads(form.people_json)
  /\ LET start_date == FromIsoFormat(form.start_date)
         end_date == FromIsoFormat(form.end_date)
     IN IF start_date = None \/ end_date = None
        THEN /\ error' = Some("Invalid date range.")
             /\ pc' = "rendered"
             /\ UNCHANGED <<window, all_unique_handles>>
        ELSE /\ window' = <<start_date[1], end_date[1] + 86400>>
             /\ all_unique_handles' = ListOfSet(HandleSet(people_data'), set_order)
             /\ pc' = "submit"
             /\ UNCHANGED error
  /\ UNCHANGED <<remote, fails, page_size, dispatched, cli_vars, form, set_order,
                 futures, handle_data_map, people_results>>

\* executor.submit(_process_handle, h, start_ts, end_ts) for the next handle.
Submit ==
  /\ pc = "submit"
  /\ Len(dispatched) < Len(all_unique_handles)
  /\ LET h == all_unique_handles[Len(dispatched) + 1]
     IN /\ futures' = DictSet(futures, h, [state |-> "queued", result |-> None])
        /\ dispatched' = Append(dispatched, h)
  /\ UNCHANGED <<remote, fails, page_size, pc, cli_vars, form, set_order, people_data,
                 window, error, all_unique_handles, handle_data_map, people_results>>

\* Every handle is submitted: the loop over as_completed(futures) begins.
AwaitResults ==
  /\ pc = "submit"
  /\ Len(dispatched) = Len(all_unique_handles)
  /\ pc' = "collect"
  /\ UNCHANGED <<remote, fails, page_size, dispatched, cli_vars, web_vars>>

Running == {h \in DOMAIN futures : futures[h].state = "running"}

\* A free worker takes the oldest queued task.
StartTask ==
  /\ pc \in {"submit", "collect"}
  /\ WorkerFree(Running)
  /\ \E i \in 1..Len(dispatched) :
       /\ futures[dispatched[i]].state = "queued"
       /\ \A j \in 1..(i - 1) : futures[dispatched[j]].state # "queued"
       /\ futures' = [futures EXCEPT ![dispatched[i]].state = "running"]
  /\ UNCHANGED <<remote, fails, page_size, pc, dispatched, cli_vars, form, set_order,
                 people_data, window, error, all_unique_handles, handle_data_map,
                 people_results>>

\* A task returns: its future holds _process_handle's result.
FinishTask ==
  /\ pc \in {"submit", "collect"}
  /\ \E h \in Running :
       futures' = [futures EXCEPT ![h] =
                     [state |-> "done", result |-> Some(ProcessHandle(h, window))]]
  /\ UNCHANGED <<remote, fails, page_size, pc, dispatched, cli_vars, form, set_order,
                 people_data, window, error, all_unique_handles, handle_data_map,
                 people_results>>

\* as_completed yields a finished future: its result is stored under its handle.
Collect ==
  /\ pc = "collect"
  /\ \E h \in DOMAIN futures :
       /\ futures[h].state = "done"
       /\ futures' = [futures EXCEPT ![h].state = "yielded"]
       /\ handle_data_map' = StoreResult(handle_data_map, futures[h].result[1])
  /\ UNCHANGED <<remote, fails, page_size, pc, dispatched, cli_vars, form, set_order,
                 people_data, window, error, all_unique_handles, people_results>>

\* as_completed is exhausted and the with block is left.
LeavePool ==
  /\ pc = "collect"
  /\ \A h \in DOMAIN futures : futures[h].state = "yielded"
  /\ pc' = "aggregate"
  /\ UNCHANGED <<remote, fails, page_size, dispatched, cli_vars, web_vars>>

\* for person in people_data: ... ; return render_template(...)
Aggregate ==
  /\ pc = "aggregate"
  /\ people_results' = [i \in 1..Len(people_data) |->
                          PersonResult(people_data[i], handle_data_map)]
  /\ pc' = "rendered"
  /\ UNCHANGED <<remote, fails, page_size, dispatched, cli_vars, form, set_order,
                 people_data, window, error, all_unique_handles, futures, handle_data_map>>

NextCli == CallFetch \/ RequestPage \/ SummarizeAccount \/ ReturnResults

NextWeb ==
  ParseForm \/ Submit \/ AwaitResults \/ StartTask \/ FinishTask \/ Collect
    \/ LeavePool \/ Aggregate

Init == InitCli \/ InitWeb

Next == NextCli \/ NextWeb

\* Both entry points, against any remote.
Spec == Init /\ [][Next]_vars

\* index with more distinct accounts than workers.
SpecPool == InitPool /\ [][NextWeb]_vars

\* ------------------------------------------------------------- properties
\* The accepted submissions of a history at or after the floor, as keys.
SolvedKeys(history) ==
  {KeyOf(sub) : sub \in {x \in Range(history) :
                           x.verdict = "OK" /\ x.creationTimeSeconds >= START_TS}}

\* What summarize_handles([h]) maps h to when the fetch of h succeeds.
AloneSummary(h) ==
  Summary(ScanSubs(remote[h],
                   [solved_local |-> EmptyDict, global_solved |-> EmptyDict]).solved_local)

\* The positions of handles whose account is done with and was fetched.
Succeeded == {i \in 1..(hpos - 1) : i <= Len(handles) /\ handles[i] \notin fails}

Occurrences(q, x) == Cardinality({i \in 1..Len(q) : q[i] = x})

\* C1: a batch never lets an exception out; every account whose fetch fails is
\* mapped to None and every other account to the summary it gets alone.  In
\* index the failed account's entry has stats None, the others their own
\* result, and each person lists the failed handle with stats None.
PartialFailureIsolation ==
  /\ pc # "propagated"
  /\ \A h \in DOMAIN results :
       results[h] = IF h \in fails THEN None ELSE Some(AloneSummary(h))
  /\ pc = "done" => DOMAIN results = Range(handles)
  /\ pc \in {"aggregate", "rendered"} /\ error = None =>
       \A h \in HandleSet(people_data) :
         /\ h \in DOMAIN handle_data_map
         /\ handle_data_map[h].stats =
              IF h \in fails THEN None ELSE ProcessHandle(h, window)[2]
  /\ pc = "rendered" /\ error = None =>
       \A i \in 1..Len(people_data) :
         /\ Len(people_results[i].handles) = Len(people_data[i].handles)
         /\ \A j \in 1..Len(people_data[i].handles) :
              people_results[i].handles[j] =
                LET h == people_data[i].handles[j]
                IN [handle |-> h,
                    stats |-> IF h \in fails THEN None ELSE ProcessHandle(h, window)[2]]

\* A finished batch of two accounts: one failed, the other solved something.
PartialFailureIsolationWitness ==
  /\ pc = "done"
  /\ \E a, b \in Range(handles) :
       /\ a \in fails /\ results[a] = None
       /\ b \notin fails /\ results[b] # None /\ results[b][1].problems > 0

\* C2: the keys of global_solved are exactly the union of the solved key sets
\* (accepted, at or after START_TS) of the accounts fetched successfully so
\* far; a failed account adds none, whatever pages it had returned.
GlobalDedup ==
  DOMAIN global_solved = UNION {SolvedKeys(remote[handles[i]]) : i \in Succeeded}

\* A = {(1,A), (2,B)} and B = {(2,B), (3,C)}: three keys.
GlobalDedupWitness ==
  /\ pc = "done"
  /\ handles = <<"alice", "bob">>
  /\ fails = {}
  /\ SolvedKeys(remote["alice"]) = {<<1, "A">>, <<2, "B">>}
  /\ SolvedKeys(remote["bob"]) = {<<2, "B">>, <<3, "C">>}
  /\ Cardinality(DOMAIN global_solved) = 3

\* C3: a key of global_solved has rating None only if every entry merged for
\* it so far had rating None.
RatingNeverRegresses ==
  \A k \in DOMAIN global_solved :
    global_solved[k] = None =>
      \A i \in Succeeded :
        \A sub \in Range(remote[handles[i]]) :
          Counted(sub) /\ KeyOf(sub) = k => sub.problem.rating = None

\* C4: no handle has more than one fetch or task started for it.
OneDispatchPerHandle ==
  \A h \in Range(dispatched) : Occurrences(dispatched, h) = 1

\* C5: when index goes on to aggregate, handle_data_map holds one entry for
\* each distinct account of the request, and the entry is that account's own
\* result, whatever the order the tasks finished in.
FanOutComplete ==
  pc \in {"aggregate", "rendered"} /\ error = None =>
    /\ DOMAIN handle_data_map = HandleSet(people_data)
    /\ \A h \in DOMAIN handle_data_map :
         handle_data_map[h] = [stats |-> ProcessHandle(h, window)[2],
                               problems |-> ProcessHandle(h, window)[3]]

\* Two accounts were dispatched; one failed and the other solved something.
FanOutCompleteWitness ==
  /\ pc = "aggregate"
  /\ Cardinality(DOMAIN handle_data_map) = 2
  /\ \E a, b \in DOMAIN handle_data_map :
       /\ handle_data_map[a].stats = None
       /\ handle_data_map[b].stats # None
       /\ DOMAIN handle_data_map[b].problems # {}

\* C6 as stated: never more than 6 account tasks in flight.
InFlightAtMostSix == Cardinality(Running) <= 6

\* C6, amended: never more than min(max_workers, distinct accounts) account
\* tasks in flight, with max_workers = 10.
InFlightAtMostMaxWorkers ==
  Cardinality(Running) <= Min(max_workers, Len(all_unique_handles))

\* Ten tasks run while an eleventh waits for a worker.
InFlightAtMostMaxWorkersWitness ==
  /\ Cardinality(Running) = max_workers
  /\ \E h \in DOMAIN futures : futures[h].state = "queued"

\* The first position of history whose submission is not newer than t.
Boundary(history, t) ==
  CHOOSE i \in 1..Len(history) :
    /\ history[i].creationTimeSeconds <= t
    /\ \A j \in 1..(i - 1) : history[j].creationTimeSeconds > t

\* C7, for the lower bound T = START_TS - 1 (the floor summarize_handles
\* filters by): when the history reaches back to T, the fetch returns exactly
\* the submissions newer than T and requests no page after the boundary's.
EarlyExit ==
  pc = "summarize" =>
    LET history == remote[handles[hpos]]
        t == START_TS - 1
    IN (\E i \in 1..Len(history) : history[i].creationTimeSeconds <= t) =>
         /\ submissions = SubSeq(history, 1, Boundary(history, t) - 1)
         /\ Len(requested) <= ((Boundary(history, t) - 1) \div page_size) + 1

\* The form's window is invalid: a date does not parse, or end < start.
InvalidWindow ==
  LET start_date == FromIsoFormat(form.start_date)
      end_date == FromIsoFormat(form.end_date)
  IN \/ start_date = None
     \/ end_date = None
     \/ end_date[1] < start_date[1]

\* C8: a request with an invalid window dispatches no account task and ends
\* with the error reported.
InvalidWindowRejected ==
  pc \notin {"loop", "fetch", "summarize", "done", "propagated"} /\ InvalidWindow =>
    /\ dispatched = << >>
    /\ pc = "rendered" => error # None

\* C9: in every person's result, tag_hist has a bucket exactly for the tags
\* some problem of the person's deduplicated set carries, and the bucket
\* counts those problems.
TagHistogramAdditive ==
  pc = "rendered" /\ error = None =>
    \A i \in 1..Len(people_results) :
      LET solved == people_results[i].raw_problems
          tag_hist == people_results[i].tag_hist
          Carrying(t) == {x \in DOMAIN solved : t \in Range(solved[x].tags)}
      IN /\ DOMAIN tag_hist = UNION {Range(solved[x].tags) : x \in DOMAIN solved}
         /\ \A t \in DOMAIN tag_hist : tag_hist[t] = Cardinality(Carrying(t))

\* C10: a fetch requests the offsets 1, 1+P, 1+2P, ...; every page before the
\* last request was full; and a fetch that is never failed returns after
\* exactly floor(N/P)+1 requests with the whole history, in the remote's order.
PaginationComplete ==
  pc \in {"fetch", "summarize"} =>
    LET history == remote[handles[hpos]]
    IN /\ \A i \in 1..Len(requested) : requested[i] = 1 + (i - 1) * page_size
       /\ pc = "fetch" =>
            /\ Len(submissions) = Len(requested) * page_size
            /\ Len(requested) <= Len(history) \div page_size
            /\ start_index = 1 + Len(requested) * page_size
       /\ pc = "summarize" =>
            /\ Len(requested) = (Len(history) \div page_size) + 1
            /\ submissions = history

\* Two submissions, one per page: the third request finds the empty page.
PaginationCompleteWitness ==
  /\ pc = "summarize"
  /\ page_size = 1
  /\ Len(remote[handles[hpos]]) = 2
  /\ requested = <<1, 2, 3>>

====
